---- MODULE Spec2Model ----
(***************************************************************************)
(* Kalman filter engine of RealMotionEngine (src/wasm/cpp/kalman.cpp):     *)
(* the dense Matrix value type, the KalmanFilter estimator and the         *)
(* handle registry behind kf_create / kf_update / kf_destroy.              *)
(*                                                                         *)
(* The C++ code computes in `double`.  The model keeps that arithmetic:    *)
(* a double is its IEEE-754 binary64 encoding (sign, biased exponent,      *)
(* 52-bit fraction) and +, -, *, / are the correctly rounded               *)
(* (round-to-nearest, ties-to-even) operations on it.                      *)
(***************************************************************************)
EXTENDS Integers, Sequences, FiniteSets, TLC

(***************************************************************************)
(* Natural numbers wider than the checker's integers: little-endian        *)
(* sequences of 13-bit digits.  Four digits are the 52 fraction bits of a  *)
(* double.                                                                 *)
(***************************************************************************)
DigitBits == 13
FracDigits == 4
ExpBias == 1023
ExpSpecial == 2047

\* F(v), with v computed once, before F uses it
With(v, F(_)) == CHOOSE r \in {F(x) : x \in {v}} : TRUE

\* F(v, w), with v and w computed once
With2(v, w, F(_, _)) == CHOOSE r \in {F(x, y) : x \in {v}, y \in {w}} : TRUE

\* the function f on 1..n as a sequence, every element computed once
Tuple(f) == << >> \o f

Pow2(n) == 2 ^ n

Base == Pow2(DigitBits)

Max(a, b) == IF a >= b THEN a ELSE b

Dig(a, i) == IF i >= 1 /\ i <= Len(a) THEN a[i] ELSE 0

BigIsZero(a) == \A i \in 1..Len(a) : a[i] = 0

RECURSIVE BigTop(_, _)
\* index of the most significant non-zero digit of a, looking from i down; 0 if none
BigTop(a, i) == IF i = 0 THEN 0 ELSE IF a[i] # 0 THEN i ELSE BigTop(a, i - 1)

RECURSIVE SmallBitLen(_)
SmallBitLen(d) == IF d = 0 THEN 0 ELSE 1 + SmallBitLen(d \div 2)

BigBitLen(a) ==
    With(BigTop(a, Len(a)),
         LAMBDA t : IF t = 0 THEN 0 ELSE DigitBits * (t - 1) + SmallBitLen(a[t]))

RECURSIVE BigCmpFrom(_, _, _)
\* -1, 0, 1 as a < b, a = b, a > b, comparing digits i, i-1, ..., 1
BigCmpFrom(a, b, i) ==
    IF i = 0 THEN 0
    ELSE IF Dig(a, i) < Dig(b, i) THEN -1
    ELSE IF Dig(a, i) > Dig(b, i) THEN 1
    ELSE BigCmpFrom(a, b, i - 1)

BigCmp(a, b) == BigCmpFrom(a, b, Max(Len(a), Len(b)))

RECURSIVE BigAddFrom(_, _, _, _, _)
BigAddFrom(a, b, i, n, c) ==
    IF i > n THEN (IF c = 0 THEN << >> ELSE <<c>>)
    ELSE With(Dig(a, i) + Dig(b, i) + c,
              LAMBDA t : <<t % Base>> \o BigAddFrom(a, b, i + 1, n, t \div Base))

\* a + b
BigAdd(a, b) == BigAddFrom(a, b, 1, Max(Len(a), Len(b)), 0)

RECURSIVE BigSubFrom(_, _, _, _, _)
BigSubFrom(a, b, i, n, br) ==
    IF i > n THEN << >>
    ELSE With(Dig(a, i) - Dig(b, i) - br,
              LAMBDA t : IF t < 0 THEN <<t + Base>> \o BigSubFrom(a, b, i + 1, n, 1)
                         ELSE <<t>> \o BigSubFrom(a, b, i + 1, n, 0))

\* a - b, for a >= b
BigSub(a, b) == BigSubFrom(a, b, 1, Max(Len(a), Len(b)), 0)

RECURSIVE BigColumn(_, _, _, _)
\* sum of a[i] * b[k + 1 - i] over the digits i, i + 1, ... that a and b have
BigColumn(a, b, k, i) ==
    IF i > Len(a) \/ i > k THEN 0
    ELSE a[i] * b[k + 1 - i] + BigColumn(a, b, k, i + 1)

RECURSIVE BigMulFrom(_, _, _, _, _)
BigMulFrom(a, b, k, n, c) ==
    IF k > n THEN << >>
    ELSE With(BigColumn(a, b, k, Max(1, k + 1 - Len(b))) + c,
              LAMBDA t : <<t % Base>> \o BigMulFrom(a, b, k + 1, n, t \div Base))

\* a * b
BigMul(a, b) == BigMulFrom(a, b, 1, Len(a) + Len(b), 0)

RECURSIVE BigScaleFrom(_, _, _, _)
\* a * m for a small m, from digit i on
BigScaleFrom(a, m, i, c) ==
    IF i > Len(a) THEN (IF c = 0 THEN << >> ELSE <<c>>)
    ELSE With(a[i] * m + c,
              LAMBDA t : <<t % Base>> \o BigScaleFrom(a, m, i + 1, t \div Base))

\* a * 2^n
BigShl(a, n) ==
    With(Pow2(n % DigitBits),
         LAMBDA m : [i \in 1..(n \div DigitBits) |-> 0] \o BigScaleFrom(a, m, 1, 0))

\* floor(a / 2^n)
BigShr(a, n) ==
    With2(Pow2(n % DigitBits), Pow2(DigitBits - (n % DigitBits)),
          LAMBDA lo, hi :
             Tuple([i \in 1..Max(Len(a) - n \div DigitBits, 0) |->
                      (Dig(a, i + n \div DigitBits) \div lo)
                      + (Dig(a, i + n \div DigitBits + 1) % lo) * hi]))

\* bit n of a (bit 0 is the least significant)
BigBit(a, n) == (Dig(a, n \div DigitBits + 1) \div Pow2(n % DigitBits)) % 2

\* a mod 2^n = 0
BigLowZero(a, n) ==
    /\ \A i \in 1..(n \div DigitBits) : Dig(a, i) = 0
    /\ Dig(a, n \div DigitBits + 1) % Pow2(n % DigitBits) = 0

BigOne == <<1>>

(***************************************************************************)
(* double: [s, e, f] is the binary64 encoding, s the sign bit, e the 11-bit *)
(* biased exponent, f the 52-bit fraction.  e = 2047 is an infinity (f = 0) *)
(* or a NaN; every NaN is kept as the one canonical quiet NaN.              *)
(***************************************************************************)
ZeroFrac == <<0, 0, 0, 0>>

DZero == [s |-> 0, e |-> 0, f |-> ZeroFrac]
DSignedZero(sg) == [s |-> sg, e |-> 0, f |-> ZeroFrac]
DInf(sg) == [s |-> sg, e |-> ExpSpecial, f |-> ZeroFrac]
DNaN == [s |-> 0, e |-> ExpSpecial, f |-> <<0, 0, 0, 4096>>]

DIsNaN(d) == d.e = ExpSpecial /\ d.f # ZeroFrac
DIsInf(d) == d.e = ExpSpecial /\ d.f = ZeroFrac
DIsZero(d) == d.e = 0 /\ d.f = ZeroFrac
DIsFinite(d) == d.e # ExpSpecial

\* significand and exponent of a finite double: its value is (-1)^s * Mant * 2^Expo
Mant(d) == IF d.e = 0 THEN d.f ELSE d.f \o <<1>>
Expo(d) == IF d.e = 0 THEN 1 - ExpBias - DigitBits * FracDigits
           ELSE d.e - ExpBias - DigitBits * FracDigits

\* the encoding of (-1)^sg * M * 2^q, M a significand below 2^54 that is exact
Pack(sg, M1, q0) ==
    With2(IF Dig(M1, FracDigits + 1) >= 2 THEN BigShr(M1, 1) ELSE M1,
          IF Dig(M1, FracDigits + 1) >= 2 THEN q0 + 1 ELSE q0,
          LAMBDA M, q :
             IF Dig(M, FracDigits + 1) = 0
             THEN [s |-> sg, e |-> 0, f |-> Tuple([i \in 1..FracDigits |-> Dig(M, i)])]
             ELSE IF q + DigitBits * FracDigits + ExpBias >= ExpSpecial THEN DInf(sg)
             ELSE [s |-> sg, e |-> q + DigitBits * FracDigits + ExpBias,
                   f |-> Tuple([i \in 1..FracDigits |-> Dig(M, i)])])

\* N * 2^E rounded to a multiple of 2^q0, q0 the exponent of the result's last place
RoundAt(sg, N, E, q0) ==
    IF q0 <= E THEN Pack(sg, BigShl(N, E - q0), q0)
    ELSE With(BigShr(N, q0 - E),
              LAMBDA M0 :
                 IF /\ BigBit(N, q0 - E - 1) = 1
                    /\ (~BigLowZero(N, q0 - E - 1) \/ BigBit(M0, 0) = 1)
                 THEN Pack(sg, BigAdd(M0, BigOne), q0)
                 ELSE Pack(sg, M0, q0))

\* The double nearest to (-1)^sg * N * 2^E, ties to even.  N may carry a sticky
\* last bit for digits that were cut off, when at least two bits of N are dropped.
RoundPack(sg, N0, E) ==
    With(N0, LAMBDA N :
       With(BigBitLen(N), LAMBDA L :
          IF L = 0 THEN DSignedZero(sg)
          ELSE RoundAt(sg, N, E,
                       Max(E + L - 1 - DigitBits * FracDigits,
                           1 - ExpBias - DigitBits * FracDigits))))

DNeg(d) == IF DIsNaN(d) THEN d ELSE [d EXCEPT !.s = 1 - d.s]

\* double literals of the code and of the hosts below
DOne == [s |-> 0, e |-> 1023, f |-> <<0, 0, 0, 0>>]                 \* 1.0
DMinusTwo == [s |-> 1, e |-> 1024, f |-> <<0, 0, 0, 0>>]            \* -2.0
DThousandth == [s |-> 0, e |-> 1013, f |-> <<2556, 6029, 4980, 196>>]   \* 0.001
DTenth == [s |-> 0, e |-> 1019, f |-> <<6554, 3276, 1638, 4915>>]       \* 0.1
DThreeTenths == [s |-> 0, e |-> 1021, f |-> <<4915, 6553, 3276, 1638>>] \* 0.3
DHalf == [s |-> 0, e |-> 1022, f |-> <<0, 0, 0, 0>>]                \* 0.5

MulFinite(a, b) ==
    IF DIsNaN(a) \/ DIsNaN(b) THEN DNaN
    ELSE IF DIsInf(a) \/ DIsInf(b)
         THEN (IF DIsZero(a) \/ DIsZero(b) THEN DNaN ELSE DInf((a.s + b.s) % 2))
    ELSE IF DIsZero(a) \/ DIsZero(b) THEN DSignedZero((a.s + b.s) % 2)
    ELSE IF a = DOne THEN b
    ELSE IF b = DOne THEN a
    ELSE With2(Mant(a), Mant(b),
               LAMBDA ma, mb : RoundPack((a.s + b.s) % 2, BigMul(ma, mb), Expo(a) + Expo(b)))

\* x * y
DMul(x, y) == With2(x, y, LAMBDA a, b : MulFinite(a, b))

AlignMax == 60

\* (-1)^sa * Na * 2^E + (-1)^sb * Nb * 2^E
AddAligned(sa, Na, sb, Nb, E) ==
    IF sa = sb THEN RoundPack(sa, BigAdd(Na, Nb), E)
    ELSE With(BigCmp(Na, Nb),
              LAMBDA c : IF c = 0 THEN DZero
                         ELSE IF c > 0 THEN RoundPack(sa, BigSub(Na, Nb), E)
                         ELSE RoundPack(sb, BigSub(Nb, Na), E))

\* a + b for finite non-zero a, b with Expo(a) >= Expo(b): b is brought to a's
\* scale, and is one sticky bit when it lies wholly below the bits kept
AddOrdered(a, b) ==
    IF Expo(a) - Expo(b) > AlignMax
    THEN With(BigShl(Mant(a), AlignMax),
              LAMBDA Na : AddAligned(a.s, Na, b.s, BigOne, Expo(a) - AlignMax))
    ELSE With2(BigShl(Mant(a), Expo(a) - Expo(b)), Mant(b),
               LAMBDA Na, Nb : AddAligned(a.s, Na, b.s, Nb, Expo(b)))

AddFinite(a, b) ==
    IF DIsNaN(a) \/ DIsNaN(b) THEN DNaN
    ELSE IF DIsInf(a) THEN (IF DIsInf(b) /\ a.s # b.s THEN DNaN ELSE a)
    ELSE IF DIsInf(b) THEN b
    ELSE IF DIsZero(a) /\ DIsZero(b) THEN (IF a.s = b.s THEN a ELSE DZero)
    ELSE IF DIsZero(a) THEN b
    ELSE IF DIsZero(b) THEN a
    ELSE IF Expo(a) >= Expo(b) THEN AddOrdered(a, b)
    ELSE AddOrdered(b, a)

\* x + y
DAdd(x, y) == With2(x, y, LAMBDA a, b : AddFinite(a, b))

\* x - y
DSub(x, y) == With2(x, DNeg(y), LAMBDA a, b : AddFinite(a, b))

QuotDigits == 5

RECURSIVE DivDown(_, _, _, _)
\* the digit q lowered until t = q * d fits under r: <<q, r - q * d>>
DivDown(q, t, r, d) ==
    IF BigCmp(t, r) > 0
    THEN With(BigSub(t, d), LAMBDA t1 : DivDown(q - 1, t1, r, d))
    ELSE <<q, BigSub(r, t)>>

RECURSIVE DivUp(_, _, _)
\* the digit q raised until the remainder is below d
DivUp(q, rem, d) ==
    IF BigCmp(rem, d) >= 0
    THEN With(BigSub(rem, d), LAMBDA r1 : DivUp(q + 1, r1, d))
    ELSE <<q, SubSeq(rem, 1, FracDigits + 1)>>

\* one step of long division in base 2^13, for r < d and d of 54 bits:
\* <<floor(r * Base / d), the remainder>>, the digit guessed from the leading
\* digits of r * Base and of d and then put right
DivDigit(r, d) ==
    With2(<<0>> \o r, Dig(d, FracDigits + 1) * Base + Dig(d, FracDigits),
          LAMBDA rb, dtop :
             With(((Dig(rb, FracDigits + 2) * Base + Dig(rb, FracDigits + 1)) * Base
                   + Dig(rb, FracDigits)) \div dtop,
                  LAMBDA qhat :
                     With(DivDown(qhat, BigScaleFrom(d, qhat, 1, 0), rb, d),
                          LAMBDA t : DivUp(t[1], t[2], d))))

RECURSIVE DivDigits(_, _, _, _)
\* j more quotient digits of r / d, most significant first, in front of q
DivDigits(r, d, j, q) ==
    IF j = 0 THEN <<q, r>>
    ELSE With(DivDigit(r, d),
              LAMBDA t : With(<<t[1]>> \o q, LAMBDA q1 : DivDigits(t[2], d, j - 1, q1)))

\* the quotient of the significands Ma * 2^la and Mb * 2^lb, both brought to 53
\* bits: floor(Ma' * 2^(65 - 1) / Mb'), doubled, with a sticky last bit for a remainder
DivNormal(sg, a, la, b, lb) ==
    With2(BigShl(Mant(a), la), BigShl(Mant(b), lb + 1),
          LAMBDA r0, d0 :
             With(DivDigits(r0, d0, QuotDigits, << >>),
                  LAMBDA qr :
                     With(BigAdd(qr[1], qr[1]),
                          LAMBDA q2 :
                             RoundPack(sg,
                                       IF BigIsZero(qr[2]) THEN q2 ELSE BigAdd(q2, BigOne),
                                       (Expo(a) - la) - (Expo(b) - lb)
                                       - DigitBits * QuotDigits))))

DivFinite(a, b) ==
    IF DIsNaN(a) \/ DIsNaN(b) THEN DNaN
    ELSE IF DIsInf(a) THEN (IF DIsInf(b) THEN DNaN ELSE DInf((a.s + b.s) % 2))
    ELSE IF DIsInf(b) THEN DSignedZero((a.s + b.s) % 2)
    ELSE IF DIsZero(b) THEN (IF DIsZero(a) THEN DNaN ELSE DInf((a.s + b.s) % 2))
    ELSE IF DIsZero(a) THEN DSignedZero((a.s + b.s) % 2)
    ELSE With2(DigitBits * FracDigits + 1 - BigBitLen(Mant(a)),
               DigitBits * FracDigits + 1 - BigBitLen(Mant(b)),
               LAMBDA la, lb : DivNormal((a.s + b.s) % 2, a, la, b, lb))

\* x / y
DDiv(x, y) == With2(x, y, LAMBDA a, b : DivFinite(a, b))

\* the magnitude of a as digits to compare, most significant first
Magnitude(a) == <<a.e, a.f[4], a.f[3], a.f[2], a.f[1]>>

MagLess(ma, mb) ==
    \E i \in 1..Len(ma) : (\A j \in 1..(i - 1) : ma[j] = mb[j]) /\ ma[i] < mb[i]

LtFinite(a, b) ==
    /\ ~DIsNaN(a) /\ ~DIsNaN(b)
    /\ ~(DIsZero(a) /\ DIsZero(b))
    /\ IF a.s # b.s THEN a.s = 1
       ELSE IF a.s = 0 THEN MagLess(Magnitude(a), Magnitude(b))
       ELSE MagLess(Magnitude(b), Magnitude(a))

\* comparisons of doubles: false whenever a NaN is involved, and -0 = +0
DLt(x, y) == \E a \in {x}, b \in {y} : LtFinite(a, b)

DEq(x, y) ==
    \E a \in {x}, b \in {y} :
       /\ ~DIsNaN(a) /\ ~DIsNaN(b)
       /\ (a = b \/ (DIsZero(a) /\ DIsZero(b)))

DLe(x, y) == \E a \in {x}, b \in {y} : LtFinite(a, b) \/ DEq(a, b)

(***************************************************************************)
(* class Matrix: rows_, cols_ and the row-major data_.                     *)
(***************************************************************************)
\* Matrix(rows, cols): zero-filled
Matrix(rows, cols) ==
    [rows_ |-> rows, cols_ |-> cols, data_ |-> Tuple([n \in 1..(rows * cols) |-> DZero])]

\* operator()(row, col), rows and columns counted from 0
At(m, row, col) == m.data_[row * m.cols_ + col + 1]

RECURSIVE DotSumStopsShort(_, _, _, _, _, _)
\* the inner loop of operator* ending one term early (k < cols_ - 1)
DotSumStopsShort(a, b, i, j, k, sum) ==
    IF k >= a.cols_ - 1 THEN sum
    ELSE With(DMul(At(a, i, k), At(b, k, j)),
              LAMBDA product :
                 With(DAdd(sum, product),
                      LAMBDA next : DotSumStopsShort(a, b, i, j, k + 1, next)))

RECURSIVE DotSum(_, _, _, _, _, _)
\* the inner loop of operator*: sum += (*this)(i, k) * other(k, j), for k up to cols_;
\* the product and the sum are each rounded (no fused multiply-add)
DotSum(a, b, i, j, k, sum) ==
    IF k >= a.cols_ THEN sum
    ELSE With(DMul(At(a, i, k), At(b, k, j)),
              LAMBDA product :
                 With(DAdd(sum, product), LAMBDA next : DotSum(a, b, i, j, k + 1, next)))

MulChecked(a, b) ==
    IF a.cols_ # b.rows_ THEN Matrix(0, 0)
    ELSE [rows_ |-> a.rows_, cols_ |-> b.cols_,
          data_ |-> Tuple([n \in 1..(a.rows_ * b.cols_) |->
                        DotSum(a, b, (n - 1) \div b.cols_, (n - 1) % b.cols_, 0, DZero)])]

\* operator*
MatMul(x, y) == With2(x, y, LAMBDA a, b : MulChecked(a, b))

AddChecked(a, b) ==
    IF a.rows_ # b.rows_ \/ a.cols_ # b.cols_ THEN Matrix(0, 0)
    ELSE [rows_ |-> a.rows_, cols_ |-> a.cols_,
          data_ |-> Tuple([n \in 1..(a.rows_ * a.cols_) |-> DAdd(a.data_[n], b.data_[n])])]

\* operator+
MatAdd(x, y) == With2(x, y, LAMBDA a, b : AddChecked(a, b))

SubChecked(a, b) ==
    IF a.rows_ # b.rows_ \/ a.cols_ # b.cols_ THEN Matrix(0, 0)
    ELSE [rows_ |-> a.rows_, cols_ |-> a.cols_,
          data_ |-> Tuple([n \in 1..(a.rows_ * a.cols_) |-> DSub(a.data_[n], b.data_[n])])]

\* operator- taking its operands the other way round
MatSubSwapped(x, y) == With2(y, x, LAMBDA a, b : SubChecked(a, b))

\* operator-
MatSub(x, y) == With2(x, y, LAMBDA a, b : SubChecked(a, b))

\* transpose(): result(j, i) = (*this)(i, j)
Transpose(x) ==
    With(x, LAMBDA a :
       [rows_ |-> a.cols_, cols_ |-> a.rows_,
        data_ |-> Tuple([n \in 1..(a.rows_ * a.cols_) |->
                      At(a, (n - 1) % a.rows_, (n - 1) \div a.rows_)])])

\* the square matrix of the given size with d at every (i, j)
DiagonalFilled(size, d) ==
    [rows_ |-> size, cols_ |-> size, data_ |-> Tuple([n \in 1..(size * size) |-> d])]

\* the square matrix of the given size with d at every (i, i) and 0.0 elsewhere
Diagonal(size, d) ==
    [rows_ |-> size, cols_ |-> size,
     data_ |-> Tuple([n \in 1..(size * size) |->
                   IF (n - 1) \div size = (n - 1) % size THEN d ELSE DZero])]

\* Matrix::identity(size)
Identity(size) == Diagonal(size, DOne)

(***************************************************************************)
(* class KalmanFilter                                                      *)
(***************************************************************************)
\* the constructor
KalmanFilter(dimensions, process_noise, measurement_noise) ==
    [dimensions_ |-> dimensions,
     state_ |-> Matrix(dimensions, 1),
     process_noise_ |-> Diagonal(dimensions, process_noise),
     measurement_noise_ |-> Diagonal(dimensions, measurement_noise),
     state_covariance_ |-> Diagonal(dimensions, DOne),
     transition_matrix_ |-> Identity(dimensions),
     measurement_matrix_ |-> Identity(dimensions),
     estimated_state_ |-> Tuple([i \in 1..dimensions |-> DZero])]

\* the diagonal of m copied where its reciprocals belong
DiagInverseCopies(x, n) ==
    With(x, LAMBDA m :
       [rows_ |-> n, cols_ |-> n,
        data_ |-> Tuple([k \in 1..(n * n) |->
                     IF (k - 1) \div n = (k - 1) % n
                     THEN At(m, (k - 1) \div n, (k - 1) \div n)
                     ELSE DZero])])

\* the diagonal-only inverse of update: 1.0 / m(i, i) on the diagonal, 0 elsewhere
DiagInverse(x, n) ==
    With(x, LAMBDA m :
       [rows_ |-> n, cols_ |-> n,
        data_ |-> Tuple([k \in 1..(n * n) |->
                     IF (k - 1) \div n = (k - 1) % n
                     THEN DDiv(DOne, At(m, (k - 1) \div n, (k - 1) \div n))
                     ELSE DZero])])

\* Matrix z(dimensions_, 1), filled from the caller's buffer
MeasurementVector(n, measurements) ==
    [rows_ |-> n, cols_ |-> 1, data_ |-> Tuple([i \in 1..n |-> measurements[i]])]

\* update taking the predicted covariance for the innovation covariance, the
\* measurement noise left out
UpdateLocalsWithoutR(kf, measurements) ==
    With2(MeasurementVector(kf.dimensions_, measurements),
          MatMul(kf.transition_matrix_, kf.state_),
    LAMBDA z, predicted_state :
    With(MatAdd(MatMul(MatMul(kf.transition_matrix_, kf.state_covariance_),
                       Transpose(kf.transition_matrix_)),
                kf.process_noise_),
    LAMBDA predicted_covariance :
    With(predicted_covariance,
    LAMBDA innovation_covariance :
    With(DiagInverse(innovation_covariance, kf.dimensions_),
    LAMBDA inv_innovation_covariance :
    With2(MatMul(predicted_covariance, inv_innovation_covariance),
          MatSub(z, predicted_state),
    LAMBDA kalman_gain, innovation :
    With2(MatAdd(predicted_state, MatMul(kalman_gain, innovation)),
          MatSub(Identity(kf.dimensions_), kalman_gain),
    LAMBDA state, temp :
        [valid |-> TRUE,
         z |-> z,
         predicted_state |-> predicted_state,
         predicted_covariance |-> predicted_covariance,
         innovation_covariance |-> innovation_covariance,
         inv_innovation_covariance |-> inv_innovation_covariance,
         kalman_gain |-> kalman_gain,
         innovation |-> innovation,
         state_ |-> state,
         state_covariance_ |-> MatMul(temp, predicted_covariance)]))))))

\* the local matrices of KalmanFilter::update, for measurements of the right
\* count, each computed in the order of the code's statements
UpdateLocals(kf, measurements) ==
    With2(MeasurementVector(kf.dimensions_, measurements),
          MatMul(kf.transition_matrix_, kf.state_),
    LAMBDA z, predicted_state :
    With(MatAdd(MatMul(MatMul(kf.transition_matrix_, kf.state_covariance_),
                       Transpose(kf.transition_matrix_)),
                kf.process_noise_),
    LAMBDA predicted_covariance :
    With(MatAdd(predicted_covariance, kf.measurement_noise_),
    LAMBDA innovation_covariance :
    With(DiagInverse(innovation_covariance, kf.dimensions_),
    LAMBDA inv_innovation_covariance :
    With2(MatMul(predicted_covariance, inv_innovation_covariance),
          MatSub(z, predicted_state),
    LAMBDA kalman_gain, innovation :
    With2(MatAdd(predicted_state, MatMul(kalman_gain, innovation)),
          MatSub(Identity(kf.dimensions_), kalman_gain),
    LAMBDA state, temp :
        [valid |-> TRUE,
         z |-> z,
         predicted_state |-> predicted_state,
         predicted_covariance |-> predicted_covariance,
         innovation_covariance |-> innovation_covariance,
         inv_innovation_covariance |-> inv_innovation_covariance,
         kalman_gain |-> kalman_gain,
         innovation |-> innovation,
         state_ |-> state,
         state_covariance_ |-> MatMul(temp, predicted_covariance)]))))))

NoLocals == [valid |-> FALSE]

\* update running its prediction step before it checks the count
UpdatePredictsBeforeCheck(kf, measurements, count) ==
    IF count # kf.dimensions_
    THEN [ok |-> FALSE,
          kf |-> [kf EXCEPT !.state_covariance_ =
                               MatAdd(kf.state_covariance_, kf.process_noise_)],
          locals |-> NoLocals]
    ELSE With(UpdateLocals(kf, measurements),
              LAMBDA l :
                 [ok |-> TRUE,
                  kf |-> [kf EXCEPT !.state_ = l.state_,
                                    !.state_covariance_ = l.state_covariance_,
                                    !.estimated_state_ =
                                        Tuple([i \in 1..kf.dimensions_ |->
                                                 At(l.state_, i - 1, 0)])],
                  locals |-> l])

\* update returning estimated_state_ without copying the new state into it
UpdateKeepsBuffer(kf, measurements, count) ==
    IF count # kf.dimensions_ THEN [ok |-> FALSE, kf |-> kf, locals |-> NoLocals]
    ELSE With(UpdateLocals(kf, measurements),
              LAMBDA l :
                 [ok |-> TRUE,
                  kf |-> [kf EXCEPT !.state_ = l.state_,
                                    !.state_covariance_ = l.state_covariance_],
                  locals |-> l])

\* update refusing, as a failure, a measurement whose innovation covariance has
\* a zero on its diagonal
UpdateGuardsZero(kf, measurements, count) ==
    IF count # kf.dimensions_ THEN [ok |-> FALSE, kf |-> kf, locals |-> NoLocals]
    ELSE With(UpdateLocals(kf, measurements),
              LAMBDA l :
                 IF \E i \in 0..(kf.dimensions_ - 1) :
                       DIsZero(At(l.innovation_covariance, i, i))
                 THEN [ok |-> FALSE, kf |-> kf, locals |-> NoLocals]
                 ELSE [ok |-> TRUE,
                       kf |-> [kf EXCEPT !.state_ = l.state_,
                                         !.state_covariance_ = l.state_covariance_,
                                         !.estimated_state_ =
                                             Tuple([i \in 1..kf.dimensions_ |->
                                                      At(l.state_, i - 1, 0)])],
                       locals |-> l])

\* KalmanFilter::update: ok is FALSE for the nullptr return, kf is the filter
\* afterwards, locals the local matrices of a run that got past the count check
Update(kf, measurements, count) ==
    IF count # kf.dimensions_ THEN [ok |-> FALSE, kf |-> kf, locals |-> NoLocals]
    ELSE With(UpdateLocals(kf, measurements),
              LAMBDA l :
                 [ok |-> TRUE,
                  kf |-> [kf EXCEPT !.state_ = l.state_,
                                    !.state_covariance_ = l.state_covariance_,
                                    !.estimated_state_ =
                                        Tuple([i \in 1..kf.dimensions_ |->
                                                 At(l.state_, i - 1, 0)])],
                  locals |-> l])

(***************************************************************************)
(* The registry: g_filters maps a handle to the KalmanFilter* stored for   *)
(* it, heap holds the KalmanFilter objects that `new` made and `delete`    *)
(* has not released, by address.  A double* returned by kf_update is kept  *)
(* as the address of the filter whose estimated_state_ it points into,     *)
(* nullptr as 0.                                                           *)
(***************************************************************************)
NullPtr == 0

\* the address `new` returns: one that is not in use.  The lowest free address is
\* taken, so that the storage of a deleted filter is used again at once.
NewAddr(hp) == CHOOSE a \in 1..(Cardinality(DOMAIN hp) + 1) :
                  /\ a \notin DOMAIN hp
                  /\ \A b \in 1..(a - 1) : b \in DOMAIN hp

\* f with f[k] = v, k a new key or an old one
Put(f, k, v) == (k :> v) @@ f

\* f without the key k
Erase(f, k) == [x \in DOMAIN f \ {k} |-> f[x]] @@ << >>

\* kf_create taking the handle from the number of live filters
kf_create_by_size(st, dimensions, process_noise, measurement_noise) ==
    IF dimensions <= 0 THEN [st |-> st, result |-> 0]
    ELSE With2(NewAddr(st.heap), Cardinality(DOMAIN st.g_filters) + 1,
               LAMBDA filter, handle :
                  [st |-> [heap |-> Put(st.heap, filter,
                                        KalmanFilter(dimensions, process_noise,
                                                     measurement_noise)),
                           g_next_handle |-> st.g_next_handle + 1,
                           g_filters |-> Put(st.g_filters, handle, filter)],
                   result |-> handle])

\* kf_create rejecting only negative dimensions
kf_create_allows_zero(st, dimensions, process_noise, measurement_noise) ==
    IF dimensions < 0 THEN [st |-> st, result |-> 0]
    ELSE With2(NewAddr(st.heap), st.g_next_handle,
               LAMBDA filter, handle :
                  [st |-> [heap |-> Put(st.heap, filter,
                                        KalmanFilter(dimensions, process_noise,
                                                     measurement_noise)),
                           g_next_handle |-> handle + 1,
                           g_filters |-> Put(st.g_filters, handle, filter)],
                   result |-> handle])

\* kf_create on the registry st = [g_filters, g_next_handle, heap]
kf_create(st, dimensions, process_noise, measurement_noise) ==
    IF dimensions <= 0 THEN [st |-> st, result |-> 0]
    ELSE With2(NewAddr(st.heap), st.g_next_handle,
               LAMBDA filter, handle :
                  [st |-> [heap |-> Put(st.heap, filter,
                                        KalmanFilter(dimensions, process_noise,
                                                     measurement_noise)),
                           g_next_handle |-> handle + 1,
                           g_filters |-> Put(st.g_filters, handle, filter)],
                   result |-> handle])

\* kf_update looking the handle up with g_filters[handle], which inserts a null
\* entry for a handle that is absent
kf_update_inserting(st, handle, measurements, count) ==
    IF handle \notin DOMAIN st.g_filters
    THEN [st |-> [st EXCEPT !.g_filters = Put(st.g_filters, handle, NullPtr)],
          result |-> NullPtr, locals |-> NoLocals]
    ELSE With(Update(st.heap[st.g_filters[handle]], measurements, count),
              LAMBDA u :
                 [st |-> [st EXCEPT !.heap[st.g_filters[handle]] = u.kf],
                  result |-> IF u.ok THEN st.g_filters[handle] ELSE NullPtr,
                  locals |-> u.locals])

\* kf_update running the update on the filter of the lowest registered handle
kf_update_first(st, handle, measurements, count) ==
    IF handle \notin DOMAIN st.g_filters
    THEN [st |-> st, result |-> NullPtr, locals |-> NoLocals]
    ELSE With(st.g_filters[CHOOSE h \in DOMAIN st.g_filters :
                              \A k \in DOMAIN st.g_filters : h <= k],
              LAMBDA filter :
                 With(Update(st.heap[filter], measurements, count),
                      LAMBDA u :
                         [st |-> [st EXCEPT !.heap[filter] = u.kf],
                          result |-> IF u.ok THEN filter ELSE NullPtr,
                          locals |-> u.locals]))

\* kf_update
kf_update(st, handle, measurements, count) ==
    IF handle \notin DOMAIN st.g_filters
    THEN [st |-> st, result |-> NullPtr, locals |-> NoLocals]
    ELSE With(Update(st.heap[st.g_filters[handle]], measurements, count),
              LAMBDA u :
                 [st |-> [st EXCEPT !.heap[st.g_filters[handle]] = u.kf],
                  result |-> IF u.ok THEN st.g_filters[handle] ELSE NullPtr,
                  locals |-> u.locals])

\* kf_destroy deleting the filter and keeping its registry entry
kf_destroy_keeps_entry(st, handle) ==
    IF handle \in DOMAIN st.g_filters
    THEN [st EXCEPT !.heap = Erase(st.heap, st.g_filters[handle])]
    ELSE st

\* kf_destroy
kf_destroy(st, handle) ==
    IF handle \in DOMAIN st.g_filters
    THEN [st EXCEPT !.heap = Erase(st.heap, st.g_filters[handle]),
                    !.g_filters = Erase(st.g_filters, handle)]
    ELSE st

(***************************************************************************)
(* The state machine: the host calls kf_create, kf_update and kf_destroy   *)
(* in any order, one call at a time (the engine is single-threaded).       *)
(***************************************************************************)
VARIABLES
    g_filters,      \* static std::unordered_map<int, KalmanFilter*>
    g_next_handle,  \* static int
    heap,           \* the KalmanFilter objects alive, by address
    ret,            \* the last call: its name, arguments and return value
    locals,         \* the local matrices of the last KalmanFilter::update that ran
    issued,         \* the successful kf_create calls, in call order
    n_updates,      \* how many kf_update calls succeeded
    inputs,         \* the arguments the host draws its calls from
    calc,           \* a Matrix computation: operands, the operation, its result
    fed             \* by registered handle: the measurements of its successful updates

vars == <<g_filters, g_next_handle, heap, ret, locals, issued, n_updates, inputs, calc, fed>>

registry == [g_filters |-> g_filters, g_next_handle |-> g_next_handle, heap |-> heap]

NoCalc == [op |-> "none", a |-> Matrix(0, 0), b |-> Matrix(0, 0), out |-> Matrix(0, 0),
           flips |-> 0]

InitWith(in) ==
    /\ g_filters = << >>
    /\ g_next_handle = 1
    /\ heap = << >>
    /\ ret = [op |-> "none", handle |-> 0, dimensions |-> 0, measurements |-> << >>,
              count |-> 0, result |-> 0]
    /\ locals = NoLocals
    /\ issued = << >>
    /\ n_updates = 0
    /\ inputs = in
    /\ fed = << >>

\* the host takes note of a call: created, updated and destroyed are what
\* kf_create, kf_update and kf_destroy made of the registry
CreateReturns(dimensions, process_noise, measurement_noise, created) ==
    \E c \in {created} :
       /\ g_filters' = c.st.g_filters
       /\ g_next_handle' = c.st.g_next_handle
       /\ heap' = c.st.heap
       /\ ret' = [op |-> "kf_create", handle |-> 0, dimensions |-> dimensions,
                  measurements |-> << >>, count |-> 0, result |-> c.result]
       /\ issued' = IF c.result # 0
                    THEN Append(issued, [handle |-> c.result, dimensions |-> dimensions,
                                         process_noise |-> process_noise,
                                         measurement_noise |-> measurement_noise])
                    ELSE issued
       /\ fed' = IF c.result # 0 THEN Put(fed, c.result, << >>) ELSE fed
       /\ UNCHANGED <<locals, n_updates, inputs, calc>>

UpdateReturns(handle, measurements, count, updated) ==
    \E u \in {updated} :
       /\ g_filters' = u.st.g_filters
       /\ g_next_handle' = u.st.g_next_handle
       /\ heap' = u.st.heap
       /\ ret' = [op |-> "kf_update", handle |-> handle, dimensions |-> 0,
                  measurements |-> measurements, count |-> count, result |-> u.result]
       /\ locals' = IF u.locals.valid THEN u.locals ELSE locals
       /\ n_updates' = IF u.result # NullPtr THEN n_updates + 1 ELSE n_updates
       /\ fed' = IF u.result # NullPtr
                 THEN Put(fed, handle,
                          Append(IF handle \in DOMAIN fed THEN fed[handle] ELSE << >>,
                                 SubSeq(measurements, 1, count)))
                 ELSE fed
       /\ UNCHANGED <<issued, inputs, calc>>

DestroyReturns(handle, destroyed) ==
    \E d \in {destroyed} :
       /\ g_filters' = d.g_filters
       /\ g_next_handle' = d.g_next_handle
       /\ heap' = d.heap
       /\ ret' = [op |-> "kf_destroy", handle |-> handle, dimensions |-> 0,
                  measurements |-> << >>, count |-> 0, result |-> 0]
       /\ fed' = Erase(fed, handle)
       /\ UNCHANGED <<locals, issued, n_updates, inputs, calc>>

\* the host calls kf_create(dimensions, process_noise, measurement_noise)
Create ==
    /\ g_next_handle <= inputs.max_creates
    /\ \E dimensions \in inputs.dimensions, qr \in inputs.noise :
          CreateReturns(dimensions, qr[1], qr[2],
                        kf_create(registry, dimensions, qr[1], qr[2]))

\* the host calls kf_update(handle, measurements, count), measurements a buffer
\* of at least count values
UpdateCall ==
    /\ n_updates < inputs.max_updates
    /\ \E handle \in inputs.handles, measurements \in inputs.measurements,
          count \in inputs.counts :
          /\ count <= Len(measurements)
          /\ UpdateReturns(handle, measurements, count,
                           kf_update(registry, handle, measurements, count))

\* the host calls kf_destroy(handle)
Destroy ==
    \E handle \in inputs.handles :
       DestroyReturns(handle, kf_destroy(registry, handle))

Next == Create \/ UpdateCall \/ Destroy

(***************************************************************************)
(* Spec: filters of one and two dimensions come and go.                    *)
(***************************************************************************)
MaxCreates == 2
MaxUpdates == 2

RegistryInputs ==
    [dimensions |-> {-1, 0, 1, 2},
     noise |-> {<<DThousandth, DTenth>>},
     measurements |-> {<<DThreeTenths, DMinusTwo>>},
     counts |-> 1..2,
     handles |-> 0..MaxCreates,
     max_creates |-> MaxCreates,
     max_updates |-> MaxUpdates]

Init == InitWith(RegistryInputs) /\ calc = NoCalc

Spec == Init /\ [][Next]_vars

(***************************************************************************)
(* SpecFilter: one filter, of any of several noise settings, is updated    *)
(* with varying measurements.                                              *)
(***************************************************************************)
MaxFilterUpdates == 3

DBillion == [s |-> 0, e |-> 1052, f |-> <<0, 0, 6464, 7066>>]          \* 1e9
DTenQuadrillion == [s |-> 0, e |-> 1076, f |-> <<0, 7940, 7757, 902>>] \* 1e16

FilterInputs ==
    [dimensions |-> {1, 2},
     noise |-> {<<DThousandth, DTenth>>, <<DHalf, DOne>>, <<DZero, DZero>>,
                <<DBillion, DOne>>, <<DTenQuadrillion, DOne>>},
     measurements |-> {<<DOne>>, <<DThreeTenths, DMinusTwo>>},
     counts |-> 1..2,
     handles |-> {1},
     max_creates |-> 1,
     max_updates |-> MaxFilterUpdates]

InitFilter == InitWith(FilterInputs) /\ calc = NoCalc

SpecFilter == InitFilter /\ [][Next]_vars

(***************************************************************************)
(* SpecConstant: one filter is fed the same measurement at every update.   *)
(***************************************************************************)
ScenarioUpdates == 5

DTiny == [s |-> 0, e |-> 0, f |-> <<1579, 7047, 6690, 36>>]            \* 1e-310
DLeast == [s |-> 0, e |-> 0, f |-> <<1, 0, 0, 0>>]                     \* 5e-324
DHuge == [s |-> 0, e |-> 2046, f |-> <<4915, 6553, 3276, 5734>>]       \* 1.7 * 2^1023

ConstantNoise ==
    {<<DThousandth, DTenth>>, <<DHalf, DOne>>, <<DTenth, DThousandth>>,
     <<DTiny, DTiny>>, <<DHuge, DLeast>>}

ConstantFeeds ==
    {<<DOne>>, <<DMinusTwo>>, <<DThreeTenths, DMinusTwo>>, <<DOne, DMinusTwo, DThreeTenths>>}

ConstantInputs(qr, m) ==
    [dimensions |-> {Len(m)},
     noise |-> {qr},
     measurements |-> {m},
     counts |-> {Len(m)},
     handles |-> {1},
     max_creates |-> 1,
     max_updates |-> ScenarioUpdates]

InitConstant ==
    /\ \E qr \in ConstantNoise, m \in ConstantFeeds : InitWith(ConstantInputs(qr, m))
    /\ calc = NoCalc

SpecConstant == InitConstant /\ [][Next]_vars

(***************************************************************************)
(* SpecPair: two one-dimensional filters, of either noise setting each,    *)
(* are updated with either measurement and destroyed, in any order.        *)
(***************************************************************************)
MaxPairUpdates == 3

PairHandles == {1, 2}

PairInputs ==
    [dimensions |-> {1},
     noise |-> {<<DThousandth, DTenth>>, <<DHalf, DOne>>},
     measurements |-> {<<DOne>>, <<DMinusTwo>>},
     counts |-> {1},
     handles |-> PairHandles,
     max_creates |-> Cardinality(PairHandles),
     max_updates |-> MaxPairUpdates]

InitPair == InitWith(PairInputs) /\ calc = NoCalc

SpecPair == InitPair /\ [][Next]_vars

(***************************************************************************)
(* SpecMatrix: Matrix values are multiplied and transposed.                *)
(***************************************************************************)
MaxIdentity == 5
MaxRows == 2
MaxCols == 3
MaxFlips == 2

\* every rows x cols matrix with entries 0.0 and 0.3, for the shapes up to MaxRows x MaxCols
SmallMatrices ==
    UNION {{[rows_ |-> r, cols_ |-> c, data_ |-> Tuple(d)] :
              d \in [1..(r * c) -> {DZero, DThreeTenths}]} :
           r \in 0..MaxRows, c \in 0..MaxCols}

InitMatrix ==
    /\ InitWith([max_creates |-> 0, max_updates |-> 0])
    /\ \E a \in SmallMatrices \cup {Identity(n) : n \in 0..MaxIdentity} :
          calc = [op |-> "none", a |-> a, b |-> Matrix(0, 0), out |-> a, flips |-> 0]

\* out = a * b, for b the operand itself or its transpose
Multiply ==
    /\ calc.op = "none"
    /\ \E b \in {calc.a, Transpose(calc.a)} :
          calc' = [calc EXCEPT !.op = "multiply", !.b = b, !.out = MatMul(calc.a, b)]
    /\ UNCHANGED <<g_filters, g_next_handle, heap, ret, locals, issued, n_updates, inputs,
                   fed>>

\* out = out.transpose()
TransposeOut ==
    /\ calc.op \in {"none", "transpose"}
    /\ calc.flips < MaxFlips
    /\ calc' = [calc EXCEPT !.op = "transpose", !.out = Transpose(calc.out),
                            !.flips = calc.flips + 1]
    /\ UNCHANGED <<g_filters, g_next_handle, heap, ret, locals, issued, n_updates, inputs,
                   fed>>

NextMatrix == Multiply \/ TransposeOut

SpecMatrix == InitMatrix /\ [][NextMatrix]_vars

(***************************************************************************)
(* The registry's contract, under Spec.                                    *)
(***************************************************************************)
IssuedHandles == {issued[i].handle : i \in DOMAIN issued}

\* C1: the handles that successful kf_create calls return are 1, 2, 3, ... in
\* call order, whatever was destroyed in between: the i-th is i, so each is
\* greater than all before it and none is returned twice.
HandlesInCallOrder == \A i \in DOMAIN issued : issued[i].handle = i

\* handle 2 has just been issued after handle 1 was destroyed
SecondHandleAfterDestroy ==
    /\ ret.op = "kf_create" /\ ret.result = 2
    /\ Len(issued) = 2
    /\ DOMAIN g_filters = {2}

\* C2: kf_update on a handle that is not live returns null and changes neither
\* the registry, the handle counter nor any filter; and a handle that was
\* destroyed never becomes live again, so every later kf_update on it fails.
UpdateOfDeadHandleFails ==
    [][/\ (ret'.op = "kf_update" /\ ret'.handle \notin DOMAIN g_filters)
          => /\ ret'.result = NullPtr
             /\ g_filters' = g_filters
             /\ g_next_handle' = g_next_handle
             /\ heap' = heap
       /\ \A h \in IssuedHandles :
             h \notin DOMAIN g_filters => h \notin DOMAIN g_filters']_vars

\* kf_update has failed on a destroyed handle while a filter created later, and
\* updated since, is live
DeadHandleUpdated ==
    /\ ret.op = "kf_update" /\ ret.result = NullPtr
    /\ ret.handle \in IssuedHandles \ DOMAIN g_filters
    /\ \E h \in DOMAIN g_filters :
          h > ret.handle /\ heap[g_filters[h]].estimated_state_[1] # DZero

\* C3: kf_update on a live handle with count # dimensions returns null and
\* leaves the filter (x, P, the output buffer) and the whole registry as they
\* were.  kf_update reads nothing but the registry and its arguments, so a
\* following update of the right count, with any measurement, returns and
\* leaves what it would have without the mismatched call.
MismatchedCountChangesNothing ==
    [][(/\ ret'.op = "kf_update"
        /\ ret'.handle \in DOMAIN g_filters
        /\ ret'.count # heap[g_filters[ret'.handle]].dimensions_)
       => /\ ret'.result = NullPtr
          /\ registry' = registry
          /\ heap'[g_filters'[ret'.handle]].state_
             = heap[g_filters[ret'.handle]].state_
          /\ heap'[g_filters'[ret'.handle]].state_covariance_
             = heap[g_filters[ret'.handle]].state_covariance_
          /\ heap'[g_filters'[ret'.handle]].estimated_state_
             = heap[g_filters[ret'.handle]].estimated_state_]_vars

\* a mismatched update has failed on a filter that had been updated before
MismatchAfterUpdate ==
    /\ ret.op = "kf_update" /\ ret.result = NullPtr
    /\ ret.handle \in DOMAIN g_filters
    /\ ret.count # heap[g_filters[ret.handle]].dimensions_
    /\ heap[g_filters[ret.handle]].estimated_state_[1] # DZero

\* C4: kf_destroy(h) on a live handle removes exactly h from the registry and
\* releases exactly its filter; on an absent handle it changes nothing; the
\* counter is never touched, and a second kf_destroy(h) changes nothing more.
DestroyIsIdempotent ==
    [][ret'.op = "kf_destroy"
       => /\ g_next_handle' = g_next_handle
          /\ kf_destroy(registry', ret'.handle) = registry'
          /\ IF ret'.handle \in DOMAIN g_filters
             THEN /\ DOMAIN g_filters' = DOMAIN g_filters \ {ret'.handle}
                  /\ \A h \in DOMAIN g_filters' : g_filters'[h] = g_filters[h]
                  /\ DOMAIN heap' = DOMAIN heap \ {g_filters[ret'.handle]}
                  /\ \A a \in DOMAIN heap' : heap'[a] = heap[a]
             ELSE /\ g_filters' = g_filters
                  /\ heap' = heap]_vars

\* handle 1 has been destroyed and an updated filter, handle 2, lives on
DestroyedBesideLive ==
    /\ ret.op = "kf_destroy" /\ ret.handle = 1
    /\ DOMAIN g_filters = {2}
    /\ Len(issued) = 2
    /\ heap[g_filters[2]].estimated_state_[1] # DZero

\* C5: kf_create with dimensions <= 0 returns 0 and changes nothing: no filter,
\* no registry entry, the same next handle; 0 is never a live handle, so that
\* kf_update(0, ...) returns null and kf_destroy(0) changes nothing.
InvalidDimensionsCreateNothing ==
    [][/\ (ret'.op = "kf_create" /\ ret'.dimensions <= 0)
          => /\ ret'.result = 0
             /\ g_filters' = g_filters
             /\ g_next_handle' = g_next_handle
             /\ heap' = heap
       /\ 0 \notin DOMAIN g_filters'
       /\ (ret'.op = "kf_update" /\ ret'.handle = 0) => ret'.result = NullPtr
       /\ (ret'.op \in {"kf_update", "kf_destroy"} /\ ret'.handle = 0)
          => /\ g_filters' = g_filters
             /\ g_next_handle' = g_next_handle
             /\ heap' = heap]_vars

\* kf_create has refused a negative dimension while a filter is live
NegativeDimensionsRefused ==
    /\ ret.op = "kf_create" /\ ret.dimensions < 0 /\ ret.result = 0
    /\ g_filters # << >>
    /\ g_next_handle = 2

\* C9: a successful kf_update on h returns the address of h's own filter, whose
\* output buffer then holds exactly dimensions values, the new estimate x; and
\* a filter's buffer changes only in a successful kf_update on its own handle,
\* whose filter stays where it is.
UpdateReturnsOwnBuffer ==
    [][/\ (ret'.op = "kf_update" /\ ret'.result # NullPtr)
          => /\ ret'.handle \in DOMAIN g_filters'
             /\ ret'.result = g_filters'[ret'.handle]
             /\ ret'.count = heap'[ret'.result].dimensions_
             /\ Len(heap'[ret'.result].estimated_state_) = heap'[ret'.result].dimensions_
             /\ heap'[ret'.result].state_ = locals'.state_
             /\ \A i \in 1..heap'[ret'.result].dimensions_ :
                   heap'[ret'.result].estimated_state_[i]
                   = At(heap'[ret'.result].state_, i - 1, 0)
       /\ \A h \in DOMAIN g_filters \cap DOMAIN g_filters' :
             g_filters'[h] = g_filters[h]
       /\ \A a \in DOMAIN heap \cap DOMAIN heap' :
             heap'[a].estimated_state_ # heap[a].estimated_state_
             => (ret'.op = "kf_update" /\ ret'.result = a)]_vars

\* a filter has just been updated while another filter holds an earlier estimate
UpdatedBesideAnother ==
    /\ ret.op = "kf_update" /\ ret.result # NullPtr
    /\ heap[ret.result].estimated_state_[1] # DZero
    /\ \E a \in DOMAIN heap \ {ret.result} : heap[a].estimated_state_[1] # DZero

(***************************************************************************)
(* The recursion, under SpecFilter and SpecConstant.                       *)
(***************************************************************************)
\* every off-diagonal entry of m is exactly zero
IsDiagonal(m) ==
    \A n \in 1..Len(m.data_) :
       (n - 1) \div m.cols_ # (n - 1) % m.cols_ => DIsZero(m.data_[n])

\* no entry of m is an infinity or a NaN
MatFinite(m) == \A n \in 1..Len(m.data_) : DIsFinite(m.data_[n])

\* m is n x n with d at every (i, i) and +0.0 elsewhere
IsScalarMatrix(m, n, d) ==
    /\ m.rows_ = n /\ m.cols_ = n /\ Len(m.data_) = n * n
    /\ \A i \in 0..(n - 1), j \in 0..(n - 1) :
          m.data_[i * n + j + 1] = IF i = j THEN d ELSE DZero

\* the kf_create call that made the filter at address a
CreatedAs(a) == issued[CHOOSE h \in DOMAIN g_filters : g_filters[h] = a]

\* F and H are the identity, Q and R the diagonal matrices of the noise given at creation
FixedMatricesKept ==
    \A a \in DOMAIN heap :
       /\ IsScalarMatrix(heap[a].transition_matrix_, heap[a].dimensions_, DOne)
       /\ IsScalarMatrix(heap[a].measurement_matrix_, heap[a].dimensions_, DOne)
       /\ IsScalarMatrix(heap[a].process_noise_, heap[a].dimensions_,
                         CreatedAs(a).process_noise)
       /\ IsScalarMatrix(heap[a].measurement_noise_, heap[a].dimensions_,
                         CreatedAs(a).measurement_noise)

\* C6 as claimed: P of every filter is diagonal, and so are the predicted
\* covariance, S and K of every update; F, H, Q and R stay as constructed.
CovariancesAlwaysDiagonal ==
    /\ FixedMatricesKept
    /\ \A a \in DOMAIN heap : IsDiagonal(heap[a].state_covariance_)
    /\ locals.valid => /\ IsDiagonal(locals.predicted_covariance)
                       /\ IsDiagonal(locals.innovation_covariance)
                       /\ IsDiagonal(locals.kalman_gain)

\* C6, amended: P of every filter, and the predicted covariance, S and K of
\* every update, are diagonal as long as their entries are finite (an infinite
\* or NaN 1/S(i,i), as zero noise gives at the second update, puts NaN off the
\* diagonal); F, H, Q and R stay as constructed.
FiniteCovariancesDiagonal ==
    /\ FixedMatricesKept
    /\ \A a \in DOMAIN heap :
          MatFinite(heap[a].state_covariance_) => IsDiagonal(heap[a].state_covariance_)
    /\ locals.valid
       => /\ MatFinite(locals.predicted_covariance) => IsDiagonal(locals.predicted_covariance)
          /\ MatFinite(locals.innovation_covariance)
             => IsDiagonal(locals.innovation_covariance)
          /\ MatFinite(locals.kalman_gain) => IsDiagonal(locals.kalman_gain)

\* a two-dimensional filter of positive noise after its third update, all finite
ThirdUpdateOfTwoDimensions ==
    /\ ret.op = "kf_update" /\ ret.result # NullPtr
    /\ n_updates = 3
    /\ heap[ret.result].dimensions_ = 2
    /\ issued[1].process_noise = DThousandth
    /\ MatFinite(locals.kalman_gain) /\ ~DIsZero(At(locals.kalman_gain, 1, 1))
    /\ MatFinite(heap[ret.result].state_covariance_)
    /\ ~DIsZero(At(heap[ret.result].state_covariance_, 1, 1))

\* equal as numbers: the same double, or two zeros
Same(x, y) == x = y \/ (DIsZero(x) /\ DIsZero(y))

\* the scalar recursion on component i of the filter kf with noise q, r and
\* measurement z, its gain k given: the new estimate and the new covariance entry
ScalarEstimate(kf, i, z, k) ==
    DAdd(At(kf.state_, i - 1, 0), DMul(k, DSub(z[i], At(kf.state_, i - 1, 0))))

ScalarCovariance(kf, i, q, k) ==
    DMul(DSub(DOne, k), DAdd(At(kf.state_covariance_, i - 1, i - 1), q))

\* k = p / s
GainByDivision(kf, i, q, r) ==
    DDiv(DAdd(At(kf.state_covariance_, i - 1, i - 1), q),
         DAdd(DAdd(At(kf.state_covariance_, i - 1, i - 1), q), r))

\* k = p * (1 / s)
GainByReciprocal(kf, i, q, r) ==
    DMul(DAdd(At(kf.state_covariance_, i - 1, i - 1), q),
         DDiv(DOne, DAdd(DAdd(At(kf.state_covariance_, i - 1, i - 1), q), r)))

\* a filter as constructed: x = 0 and P = I
FreshFilter(kf) ==
    /\ kf.state_.rows_ = kf.dimensions_ /\ kf.state_.cols_ = 1
    /\ \A i \in 1..kf.dimensions_ : kf.state_.data_[i] = DZero
    /\ IsScalarMatrix(kf.state_covariance_, kf.dimensions_, DOne)

\* C8 as claimed: a successful update leaves, in every component i, the estimate
\* x + k (z - x) and the covariance entry (1 - k) p, for p = P(i,i) + q,
\* s = p + r and k = p / s; a filter starts from x = 0 and P = I.
UpdateIsScalarRecursion ==
    [][/\ (ret'.op = "kf_create" /\ ret'.result # 0)
          => FreshFilter(heap'[g_filters'[ret'.result]])
       /\ (ret'.op = "kf_update" /\ ret'.result # NullPtr)
          => \A i \in 1..heap[ret'.result].dimensions_ :
                \E k \in {GainByDivision(heap[ret'.result], i,
                                         issued[ret'.handle].process_noise,
                                         issued[ret'.handle].measurement_noise)} :
                   /\ Same(At(heap'[ret'.result].state_, i - 1, 0),
                           ScalarEstimate(heap[ret'.result], i, ret'.measurements, k))
                   /\ Same(At(heap'[ret'.result].state_covariance_, i - 1, i - 1),
                           ScalarCovariance(heap[ret'.result], i,
                                            issued[ret'.handle].process_noise, k))]_vars

\* the update whose locals are l, of the filter kf, met no infinity and no NaN
FiniteUpdate(kf, l) ==
    /\ MatFinite(kf.state_) /\ MatFinite(kf.state_covariance_)
    /\ MatFinite(l.z)
    /\ MatFinite(l.predicted_covariance)
    /\ MatFinite(l.inv_innovation_covariance)
    /\ MatFinite(l.kalman_gain)

\* C8, amended: the gain is k = p * (1 / s), the reciprocal rounded before the
\* product, and the equality is that of an update that meets no infinity and no
\* NaN; the rest as claimed.
UpdateIsReciprocalRecursion ==
    [][/\ (ret'.op = "kf_create" /\ ret'.result # 0)
          => FreshFilter(heap'[g_filters'[ret'.result]])
       /\ (ret'.op = "kf_update" /\ ret'.result # NullPtr
           /\ FiniteUpdate(heap[ret'.result], locals'))
          => \A i \in 1..heap[ret'.result].dimensions_ :
                \E k \in {GainByReciprocal(heap[ret'.result], i,
                                           issued[ret'.handle].process_noise,
                                           issued[ret'.handle].measurement_noise)} :
                   /\ Same(At(locals'.kalman_gain, i - 1, i - 1), k)
                   /\ Same(At(heap'[ret'.result].state_, i - 1, 0),
                           ScalarEstimate(heap[ret'.result], i, ret'.measurements, k))
                   /\ Same(At(heap'[ret'.result].state_covariance_, i - 1, i - 1),
                           ScalarCovariance(heap[ret'.result], i,
                                            issued[ret'.handle].process_noise, k))]_vars

\* an update of a two-dimensional filter with q = 0.5 and r = 1.0, where p / s
\* and p * (1 / s) differ, has run with finite values
ReciprocalGainDiffers ==
    /\ ret.op = "kf_update" /\ ret.result # NullPtr
    /\ heap[ret.result].dimensions_ = 2
    /\ issued[1].process_noise = DHalf
    /\ MatFinite(locals.kalman_gain) /\ MatFinite(heap[ret.result].state_)
    /\ At(locals.kalman_gain, 0, 0)
       # DDiv(At(locals.predicted_covariance, 0, 0), At(locals.innovation_covariance, 0, 0))

\* y lies between x and m, ends included
Toward(x, y, m) == (DLe(x, y) /\ DLe(y, m)) \/ (DLe(m, y) /\ DLe(y, x))

\* positive and finite
PositiveNoise(q) == q.s = 0 /\ DIsFinite(q) /\ ~DIsZero(q)

\* at least 2^-1000 and below 2^1000
OrdinaryNoise(q) == q.s = 0 /\ q.e >= ExpBias - 1000 /\ q.e < ExpBias + 1000

\* the scenario: one dimension, process noise 0.001, measurement noise 0.1, fed 1.0
IsScenario ==
    /\ inputs.noise = {<<DThousandth, DTenth>>}
    /\ inputs.measurements = {<<DOne>>}

\* a successful update moves every component of the estimate toward the
\* measurement and not past it; in the scenario the estimate grows and stays <= 1
MovesToward ==
    /\ \A i \in 1..heap[ret'.result].dimensions_ :
          Toward(At(heap[ret'.result].state_, i - 1, 0),
                 heap'[ret'.result].estimated_state_[i],
                 ret'.measurements[i])
    /\ IsScenario => /\ DLt(At(heap[ret'.result].state_, 0, 0),
                            heap'[ret'.result].estimated_state_[1])
                     /\ DLe(heap'[ret'.result].estimated_state_[1], DOne)

\* C7 as claimed: for a fresh filter of positive noise fed one measurement m at
\* every update, every update moves each component of the estimate toward m and
\* never past it; the scenario's estimates are strictly increasing and <= 1.
ConstantFeedMonotone ==
    [][(/\ ret'.op = "kf_update" /\ ret'.result # NullPtr
        /\ PositiveNoise(issued[1].process_noise)
        /\ PositiveNoise(issued[1].measurement_noise))
       => MovesToward]_vars

\* C7, amended: the same for noise that is neither so small that 1/S(i,i)
\* overflows nor so large that the gain is rounded above 1: process and
\* measurement noise of at least 2^-1000 and below 2^1000.
ConstantFeedMonotoneOrdinaryNoise ==
    [][(/\ ret'.op = "kf_update" /\ ret'.result # NullPtr
        /\ OrdinaryNoise(issued[1].process_noise)
        /\ OrdinaryNoise(issued[1].measurement_noise))
       => MovesToward]_vars

\* the scenario's fifth estimate has been returned: it is below 1
ScenarioFifthEstimate ==
    /\ IsScenario
    /\ ret.op = "kf_update" /\ ret.result # NullPtr
    /\ n_updates = 5
    /\ DLt(DHalf, heap[ret.result].estimated_state_[1])
    /\ DLt(heap[ret.result].estimated_state_[1], DOne)

(***************************************************************************)
(* Matrix, under SpecMatrix.                                               *)
(***************************************************************************)
\* C10: identity(n) * identity(n) = identity(n) for n in 0..5, and a matrix
\* transposed twice (or any even number of times) has the shape and the entries
\* it had.
IdentityProductAndDoubleTranspose ==
    /\ calc.op = "multiply"
       => \A n \in 0..MaxIdentity :
             (calc.a = Identity(n) /\ calc.b = Identity(n))
             => IsScalarMatrix(calc.out, n, DOne)
    /\ (calc.op = "transpose" /\ calc.flips % 2 = 0)
       => /\ calc.out.rows_ = calc.a.rows_
          /\ calc.out.cols_ = calc.a.cols_
          /\ calc.out.data_ = calc.a.data_

\* identity(5) has been multiplied by itself
IdentityFiveSquared ==
    /\ calc.op = "multiply"
    /\ calc.a = Identity(5) /\ calc.b = Identity(5)
    /\ calc.out.rows_ = 5 /\ Len(calc.out.data_) = 25

(***************************************************************************)
(* Noise that is not validated, under SpecFilter.                          *)
(***************************************************************************)
\* C11: kf_create takes any noise as it is given (a positive dimension always
\* yields a handle, and Q and R hold the given values), and kf_update on a
\* live handle with the right count never fails: it takes 1.0 / S(i, i) of
\* every diagonal entry, an infinity where S(i, i) is zero, and returns the
\* filter's buffer.
ZeroInnovationStillDivided ==
    [][/\ (ret'.op = "kf_create" /\ ret'.dimensions > 0)
          => /\ ret'.result # 0
             /\ ret'.result \in DOMAIN g_filters'
             /\ IsScalarMatrix(heap'[g_filters'[ret'.result]].process_noise_,
                               ret'.dimensions, issued'[ret'.result].process_noise)
             /\ IsScalarMatrix(heap'[g_filters'[ret'.result]].measurement_noise_,
                               ret'.dimensions, issued'[ret'.result].measurement_noise)
       /\ (/\ ret'.op = "kf_update"
           /\ ret'.handle \in DOMAIN g_filters
           /\ ret'.count = heap[g_filters[ret'.handle]].dimensions_)
          => /\ ret'.result # NullPtr
             /\ ret'.result = g_filters[ret'.handle]
             /\ locals'.valid
             /\ \A i \in 0..(ret'.count - 1) :
                   /\ At(locals'.inv_innovation_covariance, i, i)
                      = DDiv(DOne, At(locals'.innovation_covariance, i, i))
                   /\ DIsZero(At(locals'.innovation_covariance, i, i))
                      => DIsInf(At(locals'.inv_innovation_covariance, i, i))]_vars

\* the second update of a filter of zero noise: the first left P = 0, S is zero
\* on its diagonal, 1.0 / S is an infinity, and the call returned the buffer
SecondUpdateDividesByZero ==
    /\ ret.op = "kf_update" /\ ret.result # NullPtr
    /\ n_updates = 2
    /\ issued[1].process_noise = DZero /\ issued[1].measurement_noise = DZero
    /\ \A i \in 0..(heap[ret.result].dimensions_ - 1) :
          /\ DIsZero(At(locals.predicted_covariance, i, i))
          /\ DIsZero(At(locals.innovation_covariance, i, i))
          /\ DIsInf(At(locals.inv_innovation_covariance, i, i))

(***************************************************************************)
(* Independence of the filters, under SpecPair.                            *)
(***************************************************************************)
RECURSIVE Replay(_, _)
\* the filter kf after successful updates with the measurements of feed, in order
Replay(kf, feed) ==
    IF feed = << >> THEN kf
    ELSE With(Update(kf, Head(feed), Len(Head(feed))).kf,
              LAMBDA next : Replay(next, Tail(feed)))

\* the filter a host would hold that had made the kf_create call of handle h
\* and the successful updates of h, and no other call
AloneFilter(h) ==
    Replay(KalmanFilter(issued[h].dimensions, issued[h].process_noise,
                        issued[h].measurement_noise),
           fed[h])

\* every filter is, buffer included, what it would be had its handle been the only one
FiltersAsIfAlone ==
    \A h \in DOMAIN g_filters : heap[g_filters[h]] = AloneFilter(h)

\* a call changes nothing of the filters registered under other handles:
\* kf_update(h) at most the filter of h, kf_destroy(h) removes h and its filter
\* only, kf_create adds at most one entry, the handle it returns
OtherFiltersUntouched ==
    /\ \A h \in DOMAIN g_filters \ {ret'.handle} :
          /\ h \in DOMAIN g_filters'
          /\ g_filters'[h] = g_filters[h]
          /\ g_filters[h] \in DOMAIN heap'
          /\ heap'[g_filters[h]] = heap[g_filters[h]]
    /\ ret'.op = "kf_update"
       => /\ g_filters' = g_filters
          /\ DOMAIN heap' = DOMAIN heap
    /\ ret'.op = "kf_destroy"
       => /\ DOMAIN g_filters' = DOMAIN g_filters \ {ret'.handle}
          /\ DOMAIN heap'
             = DOMAIN heap \ {g_filters[h] : h \in DOMAIN g_filters \cap {ret'.handle}}
    /\ ret'.op = "kf_create"
       => /\ DOMAIN g_filters' = DOMAIN g_filters \cup ({ret'.result} \ {0})
          /\ Cardinality(DOMAIN heap')
             = Cardinality(DOMAIN heap) + (IF ret'.result # 0 THEN 1 ELSE 0)

\* C12: kf_update(h) changes only the filter of h, kf_destroy(h) removes only h,
\* kf_create adds one entry and touches no other; and every registered filter,
\* with the estimate in its buffer, is at all times the one that its own
\* creation parameters and the measurements of its own successful updates
\* give, however the calls on other handles were interleaved.
FiltersIndependent ==
    /\ []FiltersAsIfAlone
    /\ [][OtherFiltersUntouched]_vars

\* handle 1 has been updated a second time, with another measurement than the
\* first, after a filter of another noise setting was created and updated
InterleavedUpdates ==
    /\ ret.op = "kf_update" /\ ret.result # NullPtr /\ ret.handle = 1
    /\ DOMAIN g_filters = {1, 2}
    /\ issued[1].process_noise # issued[2].process_noise
    /\ Len(fed[1]) = 2 /\ Len(fed[2]) = 1
    /\ fed[1][1] # fed[1][2]
    /\ heap[g_filters[1]].estimated_state_ # heap[g_filters[2]].estimated_state_

(***************************************************************************)
(* The bounds of the covariance recursion, under SpecFilter.               *)
(***************************************************************************)
\* 2^n
DPow2(n) == [s |-> 0, e |-> ExpBias + n, f |-> ZeroFrac]

\* strictly between 0 and 1
InsideUnit(k) == DLt(DZero, k) /\ DLt(k, DOne)

\* the update whose locals are l has, in every component, S > 0 and 0 < K < 1,
\* and leaves the filter kf with 0 < P < r on its diagonal
UpdateWithinBounds(kf, l, r) ==
    \A i \in 0..(kf.dimensions_ - 1) :
       /\ DLt(DZero, At(l.innovation_covariance, i, i))
       /\ InsideUnit(At(l.kalman_gain, i, i))
       /\ DLt(DZero, At(kf.state_covariance_, i, i))
       /\ DLt(At(kf.state_covariance_, i, i), r)

\* a created filter has P > 0 on its diagonal, and a successful update of a
\* filter whose noise passes the test `covered` stays within the bounds
BoundsKeptWhere(covered(_, _)) ==
    /\ (ret'.op = "kf_create" /\ ret'.result # 0)
       => \A i \in 0..(ret'.dimensions - 1) :
             DLt(DZero, At(heap'[g_filters'[ret'.result]].state_covariance_, i, i))
    /\ (/\ ret'.op = "kf_update" /\ ret'.result # NullPtr
        /\ covered(issued[ret'.handle].process_noise,
                   issued[ret'.handle].measurement_noise))
       => UpdateWithinBounds(heap'[ret'.result], locals',
                             issued[ret'.handle].measurement_noise)

\* C13 as claimed: with process noise > 0 and measurement noise > 0, P is
\* positive on its diagonal in every state, and every update has S > 0 and
\* 0 < K < 1 on the diagonal and leaves P(i, i) < measurement noise.
PositiveNoiseKeepsBounds ==
    [][BoundsKeptWhere(LAMBDA q, r : PositiveNoise(q) /\ PositiveNoise(r))]_vars

\* 2^-24 <= r <= 2^500 and 2^-500 <= q <= 2^24 * r
BalancedNoise(q, r) ==
    /\ DLe(DPow2(-24), r) /\ DLe(r, DPow2(500))
    /\ DLe(DPow2(-500), q) /\ DLe(q, DMul(DPow2(24), r))

\* C13, amended: the bounds hold for measurement noise r from 2^-24 to 2^500
\* and process noise q from 2^-500 to 2^24 * r.  (Beyond that the rounding of
\* 1 - K is as large as what separates P from r: q = 1e9, r = 1 leaves
\* P > r, and q = 1e16, r = 1 has K = 1 and leaves P = 0.)
BalancedNoiseKeepsBounds ==
    [][BoundsKeptWhere(BalancedNoise)]_vars

\* the third update of a two-dimensional filter with q = 0.5, r = 1.0 has kept
\* the bounds
BoundedAfterThirdUpdate ==
    /\ ret.op = "kf_update" /\ ret.result # NullPtr
    /\ n_updates = 3 /\ Len(fed[ret.handle]) = 3
    /\ heap[ret.result].dimensions_ = 2
    /\ issued[ret.handle].process_noise = DHalf
    /\ BalancedNoise(issued[ret.handle].process_noise,
                     issued[ret.handle].measurement_noise)
    /\ UpdateWithinBounds(heap[ret.result], locals, issued[ret.handle].measurement_noise)

====
